---- MODULE Spec2Model ----
(***************************************************************************)
(* hassil: template parser (parse_expression.py) and matcher / recognition *)
(* driver (recognize.py).                                                  *)
(*                                                                         *)
(* Strings are sequences of one-character strings, so that prefix tests,   *)
(* stripping and slicing are computed character by character as the Python *)
(* code computes them.                                                     *)
(***************************************************************************)
EXTENDS Integers, Sequences, FiniteSets, TLC

\* ------------------------------------------------------------------------
\* Characters and string helpers (Python str methods and the module regexes)
\* ------------------------------------------------------------------------

\* \s of the regexes and of str.strip / str.isspace
Whitespace == {" "}

\* PUNCTUATION = re.compile(r"[...]+") : the ASCII members of the class
PunctuationChars == {".", ",", "?", "!", ";", ":"}

Digits == {"0", "1", "2", "3", "4", "5", "6", "7", "8", "9"}

\* The element of a one element set.  A value that is used several times is
\* bound as the element of such a set (x \in {e}), which evaluates e once.
Only(S) == CHOOSE x \in S : TRUE

MinOf(S) == CHOOSE x \in S : \A y \in S : x <= y
MaxOf(S) == CHOOSE x \in S : \A y \in S : x >= y

\* str.lstrip()
LStrip(s) ==
    LET keep == {i \in 1..Len(s) : s[i] \notin Whitespace}
    IN  IF keep = {} THEN <<>> ELSE SubSeq(s, MinOf(keep), Len(s))

\* str.rstrip()
RStrip(s) ==
    LET keep == {i \in 1..Len(s) : s[i] \notin Whitespace}
    IN  IF keep = {} THEN <<>> ELSE SubSeq(s, 1, MaxOf(keep))

\* str.strip()
Strip(s) == LStrip(RStrip(s))

\* str.startswith(p)
StartsWith(s, p) == Len(p) <= Len(s) /\ SubSeq(s, 1, Len(p)) = p

\* str.endswith(" ")
EndsWithSpace(s) == Len(s) > 0 /\ s[Len(s)] = " "

\* s[n:]
Drop(s, n) == SubSeq(s, n + 1, Len(s))

\* str.isspace(): non-empty and whitespace only
IsSpace(s) == Len(s) > 0 /\ \A i \in 1..Len(s) : s[i] \in Whitespace

NotWhitespace(c) == c \notin Whitespace
NotPunctuation(c) == c \notin PunctuationChars

\* WHITESPACE.sub("", s)
RemoveWhitespace(s) == SelectSeq(s, NotWhitespace)

\* PUNCTUATION.sub("", s)
RemovePunctuation(s) == SelectSeq(s, NotPunctuation)

\* re.sub of a "one or more of class" pattern by a single space: every
\* maximal run of class characters becomes one " "
RECURSIVE RunsToSpace(_, _, _)
RunsToSpace(s, class, i) ==
    IF i > Len(s) THEN <<>>
    ELSE IF s[i] \in class
         THEN IF i > 1 /\ s[i - 1] \in class
              THEN RunsToSpace(s, class, i + 1)
              ELSE <<" ">> \o RunsToSpace(s, class, i + 1)
         ELSE <<s[i]>> \o RunsToSpace(s, class, i + 1)

\* PUNCTUATION.sub(" ", s)
PunctuationToSpace(s) == RunsToSpace(s, PunctuationChars, 1)

\* WHITESPACE.sub(" ", s)
WhitespaceToSpace(s) == RunsToSpace(s, Whitespace, 1)

\* str.split()[0]: the first whitespace-delimited token
FirstToken(s) ==
    LET t == LStrip(s)
        ws == {i \in 1..Len(t) : t[i] \in Whitespace}
    IN  IF ws = {} THEN t ELSE SubSeq(t, 1, MinOf(ws) - 1)

\* ------------------------------------------------------------------------
\* Expression model (expression.py)
\* ------------------------------------------------------------------------

\* Every expression is a record of one shape; kind tells the variant.
Expr(kind, type, text, items, list_name, slot_name, rule_name) ==
    [kind |-> kind, type |-> type, text |-> text, items |-> items,
     list_name |-> list_name, slot_name |-> slot_name, rule_name |-> rule_name]

TextChunk(text) == Expr("TextChunk", "", text, <<>>, <<>>, <<>>, <<>>)

Sequence(type, items) == Expr("Sequence", type, <<>>, items, <<>>, <<>>, <<>>)

RuleReference(rule_name) == Expr("RuleReference", "", <<>>, <<>>, <<>>, <<>>, rule_name)

\* ListReference(list_name=...): "list:slot" names the list and the slot,
\* a plain name names both
ListReference(list_name) ==
    LET colons == {i \in 1..Len(list_name) : list_name[i] = ":"}
    IN  IF colons # {}
        THEN Expr("ListReference", "", <<>>, <<>>,
                  SubSeq(list_name, 1, MinOf(colons) - 1),
                  SubSeq(list_name, MinOf(colons) + 1, Len(list_name)), <<>>)
        ELSE Expr("ListReference", "", <<>>, <<>>, list_name, list_name, <<>>)

\* TextChunk.is_empty
IsEmptyChunk(chunk) == chunk.text = <<>>

\* What a raised ParseExpressionError / tokenizer ParseError is returned as
ParseExpressionError == Expr("ParseExpressionError", "", <<>>, <<>>, <<>>, <<>>, <<>>)
ParseError == Expr("ParseError", "", <<>>, <<>>, <<>>, <<>>, <<>>)

IsError(e) == e.kind \in {"ParseExpressionError", "ParseError"}

\* ------------------------------------------------------------------------
\* Tokenizer (parser.py: next_chunk, remove_delimiters, remove_escapes)
\* ------------------------------------------------------------------------

GROUP_START == "("
GROUP_END == ")"
OPT_START == "["
OPT_END == "]"
LIST_START == "{"
LIST_END == "}"
RULE_START == "<"
RULE_END == ">"
ALT_SEP == "|"
ESCAPE_CHAR == "\\"

DELIM_START == {GROUP_START, OPT_START, LIST_START, RULE_START}
DELIM_END == {GROUP_END, OPT_END, LIST_END, RULE_END}

ParseChunk(parse_type, text, end_index) ==
    [parse_type |-> parse_type, text |-> text, end_index |-> end_index]

\* next_chunk returned None
NoChunk == ParseChunk("NONE", <<>>, 0)
\* next_chunk raised
BadChunk == ParseChunk("ERROR", <<>>, 0)

\* Index after the WORD that starts at i: the word runs over its characters
\* (an escape takes the next character with it) and over the whitespace
\* that follows them, up to the next word, delimiter or "|"; 0 for a
\* trailing escape. ("turn on" is the chunks "turn " and "on": is_match
\* skips punctuation between the words of a template, test_skip_punctuation.)
RECURSIVE FindEndWord(_, _, _)
FindEndWord(text, i, separator_found) ==
    IF i > Len(text) THEN i
    ELSE IF text[i] \in DELIM_START \cup DELIM_END \cup {ALT_SEP} THEN i
    ELSE IF text[i] \in Whitespace THEN FindEndWord(text, i + 1, TRUE)
    ELSE IF separator_found THEN i
    ELSE IF text[i] = ESCAPE_CHAR
         THEN IF i = Len(text) THEN 0 ELSE FindEndWord(text, i + 2, FALSE)
         ELSE FindEndWord(text, i + 1, FALSE)

\* Index of the closer that balances the opener before i (depth counts the
\* openers of the same kind still open); 0 when the text is unbalanced.
RECURSIVE FindEndDelimiter(_, _, _, _, _)
FindEndDelimiter(text, i, depth, start_char, end_char) ==
    IF i > Len(text) THEN 0
    ELSE IF text[i] = ESCAPE_CHAR
         THEN FindEndDelimiter(text, i + 2, depth, start_char, end_char)
         ELSE IF text[i] = start_char
              THEN FindEndDelimiter(text, i + 1, depth + 1, start_char, end_char)
              ELSE IF text[i] = end_char
                   THEN IF depth = 1 THEN i
                        ELSE FindEndDelimiter(text, i + 1, depth - 1, start_char, end_char)
                   ELSE FindEndDelimiter(text, i + 1, depth, start_char, end_char)

DelimitedChunk(text, parse_type, start_char, end_char) ==
    LET close == FindEndDelimiter(text, 2, 1, start_char, end_char)
    IN  IF close = 0 THEN BadChunk
        ELSE ParseChunk(parse_type, SubSeq(text, 1, close), close)

WordChunk(text) ==
    LET body == {i \in 1..Len(text) : text[i] \notin Whitespace}
        first == IF body = {} THEN Len(text) + 1 ELSE MinOf(body)
        stop == FindEndWord(text, first, FALSE)
    IN  IF stop = 0 THEN BadChunk
        ELSE ParseChunk("WORD", SubSeq(text, first, stop - 1), stop - 1)

next_chunk(text) ==
    IF text = <<>> THEN NoChunk
    ELSE IF text[1] = GROUP_START THEN DelimitedChunk(text, "GROUP", GROUP_START, GROUP_END)
    ELSE IF text[1] = OPT_START THEN DelimitedChunk(text, "OPT", OPT_START, OPT_END)
    ELSE IF text[1] = LIST_START THEN DelimitedChunk(text, "LIST", LIST_START, LIST_END)
    ELSE IF text[1] = RULE_START THEN DelimitedChunk(text, "RULE", RULE_START, RULE_END)
    ELSE IF text[1] = ALT_SEP THEN ParseChunk("ALT", <<ALT_SEP>>, 1)
    ELSE IF text[1] \in DELIM_END THEN BadChunk
    ELSE WordChunk(text)

\* remove_delimiters(text, start_char, end_char): text[1:-1]
remove_delimiters(text, start_char, end_char) == SubSeq(text, 2, Len(text) - 1)

\* remove_escapes(text): every escape backslash dropped, the escaped char kept
RECURSIVE remove_escapes_from(_, _)
remove_escapes_from(text, i) ==
    IF i > Len(text) THEN <<>>
    ELSE IF text[i] = ESCAPE_CHAR
         THEN IF i = Len(text) THEN <<>>
              ELSE <<text[i + 1]>> \o remove_escapes_from(text, i + 2)
         ELSE <<text[i]>> \o remove_escapes_from(text, i + 1)

remove_escapes(text) == remove_escapes_from(text, 1)

\* ------------------------------------------------------------------------
\* Expression parser (parse_expression.py)
\* ------------------------------------------------------------------------

\* A Group promoted to an Alternative of its bare items
PromotedUnwrapped(seq) ==
    IF seq.type # "ALTERNATIVE" THEN Sequence("ALTERNATIVE", seq.items) ELSE seq

\* ensure_alternative(seq)
ensure_alternative(seq) ==
    IF seq.type # "ALTERNATIVE"
    THEN Sequence("ALTERNATIVE", <<Sequence("GROUP", seq.items)>>)
    ELSE seq

\* The item parse types the scan loop of parse_group_or_alt hands to
\* parse_expression
ItemParseTypes == {"WORD", "GROUP", "OPT", "SLOT", "RULE"}

\* parse_group_or_alt, lines 87-100: add a parsed item to seq
AddItem(seq, item) ==
    IF seq.type = "ALTERNATIVE"
    THEN LET items0 == IF seq.items = <<>> THEN <<Sequence("GROUP", <<>>)>> ELSE seq.items
             last_item == items0[Len(items0)]
         IN  IF last_item.kind # "Sequence"
             THEN ParseExpressionError
             ELSE Sequence("ALTERNATIVE",
                           [items0 EXCEPT ![Len(items0)] =
                               Sequence(last_item.type, Append(last_item.items, item))])
    ELSE Sequence(seq.type, Append(seq.items, item))

\* parse_group_or_alt, lines 101-105: an ALT chunk opens a new branch
BeginBranch(seq) ==
    LET alt == ensure_alternative(seq)
    IN  Sequence("ALTERNATIVE", Append(alt.items, Sequence("GROUP", <<>>)))

\* parse_expression, WORD chunk
ParseWord(chunk) == TextChunk(chunk.text)

\* parse_expression, LIST chunk
ParseList(chunk) == ListReference(remove_delimiters(chunk.text, LIST_START, LIST_END))

\* parse_expression, RULE chunk
ParseRule(chunk) == RuleReference(remove_delimiters(chunk.text, RULE_START, RULE_END))

\* parse_expression, OPT chunk, after the body is parsed
ParseOptional(seq) ==
    LET alt == ensure_alternative(seq)
    IN  Sequence("ALTERNATIVE", Append(alt.items, TextChunk(<<>>)))

RECURSIVE parse_expression(_)
RECURSIVE parse_group_or_alt(_)
RECURSIVE ParseLoop(_, _, _, _, _)

\* lines 78-107: what one chunk of the body makes of seq
ParseItem(seq_chunk, seq, item_chunk) ==
    IF item_chunk.parse_type \in ItemParseTypes
    THEN Only({ IF IsError(item) THEN item ELSE AddItem(seq, item)
                : item \in {parse_expression(item_chunk)} })
    ELSE IF item_chunk.parse_type = "ALT" THEN BeginBranch(seq)
    ELSE ParseExpressionError

\* The text left, had the chunk been put back in front of it
SeqTextWithChunkPutBack(seq_text, item_chunk) == item_chunk.text \o seq_text

\* lines 110-111: the text left after the chunk
NextSeqText(seq_text, item_chunk) == LStrip(Drop(seq_text, item_chunk.end_index))

\* The while loop of parse_group_or_alt (lines 77-119)
ParseLoop(seq_chunk, seq, seq_text, last_seq_text, item_chunk) ==
    IF item_chunk.parse_type = "NONE" THEN seq
    ELSE IF item_chunk.parse_type = "ERROR" THEN ParseError
    ELSE Only({ IF IsError(seq1) THEN seq1
                ELSE IF seq_text1 = last_seq_text THEN ParseExpressionError
                ELSE ParseLoop(seq_chunk, seq1, seq_text1, seq_text1,
                               next_chunk(seq_text1))
                : seq1 \in {ParseItem(seq_chunk, seq, item_chunk)},
                  seq_text1 \in {NextSeqText(seq_text, item_chunk)} })

parse_group_or_alt(seq_chunk) ==
    IF seq_chunk.parse_type \notin {"GROUP", "OPT"} THEN ParseExpressionError
    ELSE LET seq_text == IF seq_chunk.parse_type = "GROUP"
                         THEN remove_delimiters(seq_chunk.text, GROUP_START, GROUP_END)
                         ELSE remove_delimiters(seq_chunk.text, OPT_START, OPT_END)
         IN  ParseLoop(seq_chunk, Sequence("GROUP", <<>>), seq_text, seq_text,
                       next_chunk(seq_text))

parse_expression(chunk) ==
    IF chunk.parse_type = "WORD" THEN ParseWord(chunk)
    ELSE IF chunk.parse_type = "GROUP" THEN parse_group_or_alt(chunk)
    ELSE IF chunk.parse_type = "OPT"
         THEN Only({ IF IsError(seq) THEN seq ELSE ParseOptional(seq)
                     : seq \in {parse_group_or_alt(chunk)} })
    ELSE IF chunk.parse_type = "LIST" THEN ParseList(chunk)
    ELSE IF chunk.parse_type = "RULE" THEN ParseRule(chunk)
    ELSE ParseExpressionError

\* parse_sentence(text): the template is wrapped in a group and parsed
parse_sentence(text) ==
    LET chunk == next_chunk(<<GROUP_START>> \o Strip(text) \o <<GROUP_END>>)
    IN  IF chunk.parse_type = "ERROR" THEN ParseError ELSE parse_group_or_alt(chunk)

\* ------------------------------------------------------------------------
\* Matcher data (recognize.py: MatchEntity, MatchSettings, MatchContext)
\* ------------------------------------------------------------------------

\* A Python value held by an entity or an intent context: None, a string,
\* an int, a non-string collection of strings, or no value at all (a key a
\* dict does not hold).
PyValue(kind, s, n, c) == [kind |-> kind, s |-> s, n |-> n, c |-> c]
PyNone == PyValue("none", "", 0, {})
PyAbsent == PyValue("absent", "", 0, {})
PyStr(s) == PyValue("str", s, 0, {})
PyInt(n) == PyValue("int", "", n, {})
PyColl(c) == PyValue("coll", "", 0, c)

\* The keys an intent context, a requires_context or an excludes_context
\* may hold; a dict is a function on them, PyAbsent where it has no entry.
ContextKeys == {"area", "domain"}
EmptyDict == [k \in ContextKeys |-> PyAbsent]

\* dict.get(key): None for a key the dict does not hold
DictGet(d, k) == IF d[k].kind = "absent" THEN PyNone ELSE d[k]

\* bool(dict)
DictTruthy(d) == \E k \in ContextKeys : d[k].kind # "absent"

\* {**a, **b}
DictMerge(a, b) == [k \in ContextKeys |-> IF b[k].kind # "absent" THEN b[k] ELSE a[k]]

MatchEntity(name, value, text) == [name |-> name, value |-> value, text |-> text]

\* MatchContext: entities is the address of a list object on the heap, so
\* that two contexts holding the same list are told from two equal lists.
MatchContext(text, entities, intent_context, is_start_of_word) ==
    [text |-> text, entities |-> entities, intent_context |-> intent_context,
     is_start_of_word |-> is_start_of_word]

NoContext == MatchContext(<<>>, 0, EmptyDict, FALSE)

\* A context test that forgets to trim: remaining whitespace is not accepted
ContextIsMatchUntrimmed(context) == RemovePunctuation(context.text) = <<>>

\* MatchContext.is_match
ContextIsMatch(context) == Strip(RemovePunctuation(context.text)) = <<>>

MatchSettings(slot_lists, expansion_rules, ignore_whitespace) ==
    [slot_lists |-> slot_lists, expansion_rules |-> expansion_rules,
     ignore_whitespace |-> ignore_whitespace]

\* intents.py: slot lists
TextSlotValue(text_in, value_out, context) ==
    [text_in |-> text_in, value_out |-> value_out, context |-> context]

TextSlotList(values) ==
    [kind |-> "TextSlotList", values |-> values, start |-> 0, stop |-> 0, step |-> 1]

RangeSlotList(start, stop, step) ==
    [kind |-> "RangeSlotList", values |-> <<>>, start |-> start, stop |-> stop, step |-> step]

\* ------------------------------------------------------------------------
\* match_expression, TextChunk (recognize.py 350-401)
\* ------------------------------------------------------------------------

\* The contexts a TextChunk yields: none or one.
MatchTextChunk(settings, context, chunk) ==
    LET chunk_text == IF settings.ignore_whitespace THEN RemoveWhitespace(chunk.text)
                      ELSE IF context.is_start_of_word THEN LStrip(chunk.text)
                      ELSE chunk.text
        context_text == IF settings.ignore_whitespace THEN RemoveWhitespace(context.text)
                        ELSE IF context.is_start_of_word THEN LStrip(context.text)
                        ELSE context.text
        no_punct == LStrip(PunctuationToSpace(context.text))
    IN  IF IsEmptyChunk(chunk) THEN <<context>>
        ELSE IF StartsWith(context_text, chunk_text)
             THEN <<MatchContext(Drop(context_text, Len(chunk_text)), context.entities,
                                 context.intent_context, EndsWithSpace(chunk.text))>>
        ELSE IF IsSpace(chunk_text)
             THEN <<MatchContext(context_text, context.entities,
                                 context.intent_context, TRUE)>>
        ELSE IF StartsWith(no_punct, chunk_text)
             THEN <<MatchContext(Drop(no_punct, Len(chunk_text)), context.entities,
                                 context.intent_context, context.is_start_of_word)>>
        ELSE <<>>

\* ------------------------------------------------------------------------
\* match_expression, RangeSlotList (recognize.py 487-520)
\* ------------------------------------------------------------------------

\* NUMBER_START = ^(\s*-?[0-9]+): the length of the match, 0 for no match
NumberStartLen(text) ==
    LET lead == {i \in 0..Len(text) : \A j \in 1..i : text[j] \in Whitespace}
        ws == MaxOf(lead)
        sign == IF ws < Len(text) /\ text[ws + 1] = "-" THEN 1 ELSE 0
        runs == {i \in 0..(Len(text) - ws - sign) :
                    \A j \in 1..i : text[ws + sign + j] \in Digits}
        digits == MaxOf(runs)
    IN  IF digits = 0 THEN 0 ELSE ws + sign + digits

DigitValue(c) ==
    CASE c = "0" -> 0 [] c = "1" -> 1 [] c = "2" -> 2 [] c = "3" -> 3 [] c = "4" -> 4
      [] c = "5" -> 5 [] c = "6" -> 6 [] c = "7" -> 7 [] c = "8" -> 8 [] c = "9" -> 9

RECURSIVE DecimalValue(_)
DecimalValue(digits) ==
    IF digits = <<>> THEN 0
    ELSE 10 * DecimalValue(SubSeq(digits, 1, Len(digits) - 1)) + DigitValue(digits[Len(digits)])

\* int(number_text)
ParseInt(number_text) ==
    LET t == Strip(number_text)
    IN  IF t[1] = "-" THEN 0 - DecimalValue(Tail(t)) ELSE DecimalValue(t)

\* n in range(start, stop_excl, step), for step # 0
InPyRange(n, start, stop_excl, step) ==
    IF step > 0 THEN start <= n /\ n < stop_excl /\ (n - start) % step = 0
    ELSE n <= start /\ stop_excl < n /\ (start - n) % (0 - step) = 0

\* A range test that leaves stop out
InRangeBelowStop(range_list, word_number) ==
    InPyRange(word_number, range_list.start, range_list.stop, range_list.step)

\* in_range (lines 496-503)
InRange(range_list, word_number) ==
    IF range_list.step = 1
    THEN range_list.start <= word_number /\ word_number <= range_list.stop
    ELSE InPyRange(word_number, range_list.start, range_list.stop + 1, range_list.step)

\* ------------------------------------------------------------------------
\* match_expression as a generator (recognize.py 346-537)
\*
\* A generator object is a record: the expression and context it was called
\* with, where its body stands (pc), the loop index (i), the generator it is
\* drawing from (sub, empty or one element) and, for a Group, the contexts
\* it has collected and not yet yielded (buf).  Resume runs the body up to
\* its next yield, its end (StopIteration) or an exception.
\* ------------------------------------------------------------------------


NewGenerator(context, expression) ==
    [e |-> expression, c |-> context, pc |-> "start", i |-> 1, sub |-> <<>>, buf |-> <<>>]

\* What one resumption gives: kind is "yield", "stop" or "raise"; trace
\* lists the expressions whose match_expression body began to run.
Resumed(kind, ctx, err, gen, heap, trace) ==
    [kind |-> kind, ctx |-> ctx, err |-> err, gen |-> gen, heap |-> heap, trace |-> trace]

Finished(g) == [g EXCEPT !.pc = "done", !.sub = <<>>, !.buf = <<>>]

Stopped(g, heap, trace) == Resumed("stop", NoContext, "", Finished(g), heap, trace)
Raised(g, err, heap, trace) == Resumed("raise", NoContext, err, Finished(g), heap, trace)

\* What draining generators gives: kind is "ok" or "raise"
Collected(kind, ctxs, err, heap, trace) ==
    [kind |-> kind, ctxs |-> ctxs, err |-> err, heap |-> heap, trace |-> trace]

\* An entity named after the list instead of the slot
EntityNamedAsList(list_ref) == list_ref.list_name

\* name= of the MatchEntity a list reference captures (lines 458, 508)
EntityName(list_ref) == list_ref.slot_name

\* text= of the MatchEntity of a TextSlotList value (lines 460-462)
EntityText(context, value_context) ==
    IF value_context.text # <<>>
    THEN SubSeq(context.text, 1, Len(context.text) - Len(value_context.text))
    ELSE context.text

\* lines 434 and 528: the name is not a key of the (possibly empty) dict
IsMissing(name, dict) == name \notin DOMAIN dict

\* The context a TextSlotList value yields for value_context (lines 466-485)
ListValueContext(context, slot_value, value_context, entities) ==
    IF DictTruthy(slot_value.context)
    THEN MatchContext(value_context.text, entities,
                      DictMerge(context.intent_context, slot_value.context),
                      context.is_start_of_word)
    ELSE MatchContext(value_context.text, entities, value_context.intent_context,
                      context.is_start_of_word)

RECURSIVE Resume(_, _, _)
RECURSIVE Drain(_, _, _)
RECURSIVE MatchEach(_, _, _, _, _)
RECURSIVE FoldGroup(_, _, _, _, _)

\* list(generator): every context the generator yields from here on
Drain(settings, g, heap) ==
    Only({ IF r.kind = "stop" THEN Collected("ok", <<>>, "", r.heap, r.trace)
           ELSE IF r.kind = "raise" THEN Collected("raise", <<>>, r.err, r.heap, r.trace)
           ELSE Only({ Collected(rest.kind, <<r.ctx>> \o rest.ctxs, rest.err, rest.heap,
                                 r.trace \o rest.trace)
                       : rest \in {Drain(settings, r.gen, r.heap)} })
           : r \in {Resume(settings, g, heap)} })

\* A step of a Group that matches the item from one context only
MatchOneOnly(settings, group_contexts, k, item, heap) ==
    IF k > Len(group_contexts) THEN Collected("ok", <<>>, "", heap, <<>>)
    ELSE Drain(settings, NewGenerator(group_contexts[k], item), heap)

\* lines 416-422: the contexts of item from each of group_contexts[k..]
MatchEach(settings, group_contexts, k, item, heap) ==
    IF k > Len(group_contexts) THEN Collected("ok", <<>>, "", heap, <<>>)
    ELSE Only({ IF one.kind = "raise" THEN one
                ELSE Only({ Collected(rest.kind, one.ctxs \o rest.ctxs, rest.err,
                                      rest.heap, one.trace \o rest.trace)
                            : rest \in {MatchEach(settings, group_contexts, k + 1, item,
                                                  one.heap)} })
                : one \in {Drain(settings, NewGenerator(group_contexts[k], item), heap)} })

\* lines 413-424: the loop over seq.items[n..] of a Group
FoldGroup(settings, group_contexts, items, n, heap) ==
    IF n > Len(items) THEN Collected("ok", group_contexts, "", heap, <<>>)
    ELSE Only({ IF step.kind = "raise" \/ step.ctxs = <<>> THEN step
                ELSE Only({ Collected(rest.kind, rest.ctxs, rest.err, rest.heap,
                                      step.trace \o rest.trace)
                            : rest \in {FoldGroup(settings, step.ctxs, items, n + 1,
                                                  step.heap)} })
                : step \in {MatchEach(settings, group_contexts, 1, items[n], heap)} })

\* lines 426-427: a Group yields the contexts it has collected one by one
YieldBuffered(g, heap, trace) ==
    IF g.buf = <<>> THEN Stopped(g, heap, trace)
    ELSE Resumed("yield", Head(g.buf), "", [g EXCEPT !.pc = "run", !.buf = Tail(g.buf)],
                 heap, trace)

\* line 411: a Group with no items runs neither loop
EmptyGroup(g, heap) == Stopped(g, heap, <<>>)

\* lines 410-427: Sequence of type GROUP
ResumeGroup(settings, g, heap) ==
    IF g.pc # "start" THEN YieldBuffered(g, heap, <<>>)
    ELSE IF g.e.items = <<>> THEN EmptyGroup(g, heap)
    ELSE Only({ IF all.kind = "raise" THEN Raised(g, all.err, all.heap, all.trace)
                ELSE YieldBuffered([g EXCEPT !.buf = all.ctxs], all.heap, all.trace)
                : all \in {FoldGroup(settings, <<g.c>>, g.e.items, 1, heap)} })

\* An iteration that steps over every second item
NextItemButOne(i) == i + 2

\* The item an Alternative draws from after item i (line 407)
NextItem(i) == i + 1

\* lines 404-408: Sequence of type ALTERNATIVE
ResumeAlternative(settings, g, heap) ==
    IF g.i > Len(g.e.items) THEN Stopped(g, heap, <<>>)
    ELSE Only({ IF r.kind = "yield"
                THEN Resumed("yield", r.ctx, "", [g EXCEPT !.pc = "run", !.sub = <<r.gen>>],
                             r.heap, r.trace)
                ELSE IF r.kind = "raise" THEN Raised(g, r.err, r.heap, r.trace)
                ELSE [Resume(settings,
                             [g EXCEPT !.pc = "run", !.i = NextItem(g.i), !.sub = <<>>],
                             r.heap)
                      EXCEPT !.trace = r.trace \o @]
                : r \in {Resume(settings,
                                IF g.sub = <<>> THEN NewGenerator(g.c, g.e.items[g.i])
                                ELSE g.sub[1],
                                heap)} })

\* lines 456-464: the entities of the context a list value yields
WithEntity(entities, entity) == entities \o <<entity>>

\* lines 438-485: ListReference to a TextSlotList
ResumeTextList(settings, g, heap) ==
    IF g.c.text = <<>> \/ g.i > Len(settings.slot_lists[g.e.list_name].values)
    THEN Stopped(g, heap, <<>>)
    ELSE Only({
        IF r.kind = "yield"
        THEN Only({ Resumed("yield",
                            ListValueContext(g.c, slot_value, r.ctx, Len(heap1)), "",
                            [g EXCEPT !.pc = "run", !.sub = <<r.gen>>], heap1, r.trace)
                    : heap1 \in {Append(r.heap,
                                   WithEntity(r.heap[g.c.entities],
                                              MatchEntity(EntityName(g.e),
                                                          slot_value.value_out,
                                                          EntityText(g.c, r.ctx))))} })
        ELSE IF r.kind = "raise" THEN Raised(g, r.err, r.heap, r.trace)
        ELSE [Resume(settings, [g EXCEPT !.pc = "run", !.i = g.i + 1, !.sub = <<>>], r.heap)
              EXCEPT !.trace = r.trace \o @]
        : slot_value \in {settings.slot_lists[g.e.list_name].values[g.i]},
          r \in {Resume(settings,
                        IF g.sub = <<>>
                        THEN NewGenerator(MatchContext(g.c.text, g.c.entities,
                                                       g.c.intent_context,
                                                       g.c.is_start_of_word),
                                          settings.slot_lists[g.e.list_name].values[g.i].text_in)
                        ELSE g.sub[1],
                        heap)} })

\* lines 487-520: ListReference to a RangeSlotList
ResumeRangeList(settings, g, heap) ==
    LET range_list == settings.slot_lists[g.e.list_name]
        number_text == SubSeq(g.c.text, 1, NumberStartLen(g.c.text))
    IN  IF g.pc # "start" \/ g.c.text = <<>> \/ number_text = <<>>
        THEN Stopped(g, heap, <<>>)
        ELSE IF range_list.step = 0 THEN Raised(g, "ValueError", heap, <<>>)
        ELSE IF ~InRange(range_list, ParseInt(number_text)) THEN Stopped(g, heap, <<>>)
        ELSE Only({ Resumed("yield",
                            MatchContext(Drop(g.c.text, Len(number_text)), Len(heap1),
                                         g.c.intent_context, g.c.is_start_of_word), "",
                            [g EXCEPT !.pc = "run"], heap1, <<>>)
                    : heap1 \in {Append(heap,
                                   WithEntity(heap[g.c.entities],
                                              MatchEntity(EntityName(g.e),
                                                          PyInt(ParseInt(number_text)),
                                                          FirstToken(g.c.text))))} })

\* A missing list taken for a list that matches nothing
MissingListMatchesNothing(g, heap) == Stopped(g, heap, <<>>)

\* lines 434-435: a list reference whose list is missing
MissingList(g, heap) == Raised(g, "MissingListError", heap, <<>>)

\* lines 528-531: a rule reference whose rule is missing
MissingRule(g, heap) == Raised(g, "MissingRuleError", heap, <<>>)

\* lines 431-523: ListReference
ResumeListReference(settings, g, heap) ==
    IF g.pc = "start" /\ IsMissing(g.e.list_name, settings.slot_lists)
    THEN MissingList(g, heap)
    ELSE IF settings.slot_lists[g.e.list_name].kind = "TextSlotList"
         THEN ResumeTextList(settings, g, heap)
         ELSE ResumeRangeList(settings, g, heap)

\* lines 525-535: RuleReference
ResumeRuleReference(settings, g, heap) ==
    IF g.pc = "start" /\ IsMissing(g.e.rule_name, settings.expansion_rules)
    THEN MissingRule(g, heap)
    ELSE Only({ IF r.kind = "yield"
                THEN Resumed("yield", r.ctx, "", [g EXCEPT !.pc = "run", !.sub = <<r.gen>>],
                             r.heap, r.trace)
                ELSE IF r.kind = "raise" THEN Raised(g, r.err, r.heap, r.trace)
                ELSE Stopped(g, r.heap, r.trace)
                : r \in {Resume(settings,
                                IF g.sub = <<>>
                                THEN NewGenerator(g.c, settings.expansion_rules[g.e.rule_name])
                                ELSE g.sub[1],
                                heap)} })

\* lines 350-401: TextChunk
ResumeTextChunk(settings, g, heap) ==
    IF g.pc # "start" THEN Stopped(g, heap, <<>>)
    ELSE Only({ IF found = <<>> THEN Stopped(g, heap, <<>>)
                ELSE Resumed("yield", found[1], "", [g EXCEPT !.pc = "run"], heap, <<>>)
                : found \in {MatchTextChunk(settings, g.c, g.e)} })

\* The body of match_expression: the branch for the kind of expression
ResumeBody(settings, g, heap) ==
    IF g.pc = "done" THEN Stopped(g, heap, <<>>)
    ELSE IF g.e.kind = "TextChunk" THEN ResumeTextChunk(settings, g, heap)
    ELSE IF g.e.kind = "Sequence" /\ g.e.type = "ALTERNATIVE"
         THEN ResumeAlternative(settings, g, heap)
    ELSE IF g.e.kind = "Sequence" /\ g.e.type = "GROUP" THEN ResumeGroup(settings, g, heap)
    ELSE IF g.e.kind = "ListReference" THEN ResumeListReference(settings, g, heap)
    ELSE IF g.e.kind = "RuleReference" THEN ResumeRuleReference(settings, g, heap)
    ELSE Raised(g, "ValueError", heap, <<>>)

\* next(generator); the body's first run is noted in the trace
Resume(settings, g, heap) ==
    Only({ IF g1.pc = "start"
           THEN [ResumeBody(settings, g1, heap1) EXCEPT !.trace = <<g1.e>> \o @]
           ELSE ResumeBody(settings, g1, heap1)
           : g1 \in {g}, heap1 \in {heap} })

\* ------------------------------------------------------------------------
\* Text normalisation (util.py) and the drivers (recognize.py 106-328)
\* ------------------------------------------------------------------------

\* str.casefold() on the letters of the model
Casefold(c) == IF c = "A" THEN "a" ELSE IF c = "B" THEN "b" ELSE c

\* normalize_text(text): casefold, then runs of whitespace become one space
normalize_text(text) == WhitespaceToSpace([i \in 1..Len(text) |-> Casefold(text[i])])

\* lines 140-155 and 293-302, with no skip words: the text that is matched
PrepareText(text, ignore_whitespace) ==
    LET stripped == Strip(normalize_text(text))
    IN  IF ignore_whitespace THEN RemoveWhitespace(stripped) ELSE stripped \o <<" ">>

\* What a call gives: kind is "value" (a context or a result), "none"
\* (None / StopIteration) or "raise"; heap is the heap when the call ended.
CallResult(kind, ctx, result, err, heap, trace) ==
    [kind |-> kind, ctx |-> ctx, result |-> result, err |-> err, heap |-> heap,
     trace |-> trace]

RecognizeResult(intent, entities, entities_list, response) ==
    [intent |-> intent, entities |-> entities, entities_list |-> entities_list,
     response |-> response]

NoResult == RecognizeResult("", <<>>, 0, PyNone)

\* lines 324-328: the loop of is_match over the generator
RECURSIVE IsMatchLoop(_, _, _, _)
IsMatchLoop(settings, g, heap, trace) ==
    Only({ IF r.kind = "stop"
           THEN CallResult("none", NoContext, NoResult, "", r.heap, trace \o r.trace)
           ELSE IF r.kind = "raise"
           THEN CallResult("raise", NoContext, NoResult, r.err, r.heap, trace \o r.trace)
           ELSE IF ContextIsMatch(r.ctx)
           THEN CallResult("value", r.ctx, NoResult, "", r.heap, trace \o r.trace)
           ELSE IsMatchLoop(settings, r.gen, r.heap, trace \o r.trace)
           : r \in {Resume(settings, g, heap)} })

\* is_match(text, sentence, slot_lists, expansion_rules, intent_context=...,
\* ignore_whitespace=...), lines 282-328
is_match(text, sentence, slot_lists, expansion_rules, intent_context, ignore_whitespace) ==
    IsMatchLoop(MatchSettings(slot_lists, expansion_rules, ignore_whitespace),
                NewGenerator(MatchContext(PrepareText(text, ignore_whitespace), 1,
                                          intent_context, TRUE),
                             sentence),
                << <<>> >>, <<>>)

\* intents.py: one IntentData record and one Intent
IntentData(sentences, slots, requires_context, excludes_context, response) ==
    [sentences |-> sentences, slots |-> slots, requires_context |-> requires_context,
     excludes_context |-> excludes_context, response |-> response]

Intent(name, data) == [name |-> name, data |-> data]

\* isinstance(v, Collection) and not isinstance(v, str) and (actual in v)
InCollection(actual_value, context_value) ==
    context_value.kind = "coll" /\ actual_value.kind = "str"
        /\ actual_value.s \in context_value.c

\* lines 201-221: some excluded key holds an excluded value
Excluded(intent_data, context) ==
    \E k \in ContextKeys :
        /\ intent_data.excludes_context[k].kind # "absent"
        /\ \/ DictGet(context.intent_context, k) = intent_data.excludes_context[k]
           \/ InCollection(DictGet(context.intent_context, k),
                           intent_data.excludes_context[k])

\* A test of a required key where a null requirement asks for nothing
RequiredKeyOkWhenUnset(actual_value, context_value) ==
    \/ actual_value = context_value /\ context_value.kind # "none"
    \/ context_value.kind = "none"
    \/ InCollection(actual_value, context_value)

\* lines 233-250: the required key holds an accepted value
RequiredKeyOk(actual_value, context_value) ==
    \/ actual_value = context_value /\ context_value.kind # "none"
    \/ context_value.kind = "none" /\ actual_value.kind # "none"
    \/ InCollection(actual_value, context_value)

\* lines 224-254: some required key fails
RequiredFails(intent_data, context) ==
    \E k \in ContextKeys :
        /\ intent_data.requires_context[k].kind # "absent"
        /\ ~RequiredKeyOk(DictGet(context.intent_context, k),
                          intent_data.requires_context[k])

\* lines 198-258: skip_match
SkipMatch(intent_data, context) ==
    Excluded(intent_data, context) \/ RequiredFails(intent_data, context)

\* lines 261-264: the fixed entities of intent_data.slots
FixedEntities(intent_data) ==
    [i \in 1..Len(intent_data.slots) |->
        MatchEntity(intent_data.slots[i][1], intent_data.slots[i][2], <<>>)]

\* lines 273-276: {entity.name: entity for entity in ...}, as the sequence
\* of the dict's values: one per name, the last entity of that name
EntitiesByName(entities) ==
    LET first == {i \in 1..Len(entities) :
                     \A j \in 1..(i - 1) : entities[j].name # entities[i].name}
        last(i) == MaxOf({j \in 1..Len(entities) : entities[j].name = entities[i].name})
        at(i) == IF i \in first THEN <<entities[last(i)]>> ELSE <<>>
        RECURSIVE upto(_)
        upto(n) == IF n = 0 THEN <<>> ELSE upto(n - 1) \o at(n)
    IN  upto(Len(entities))

\* lines 267-269
ResponseOf(intent_data, default_response) ==
    IF intent_data.response.kind # "none" THEN intent_data.response ELSE default_response

\* The generator object of recognize_all: where its three loops stand
\* (ii, di, si) and the match_expression generator it is drawing from.
NewRecognizeAll == [pc |-> "start", ii |-> 1, di |-> 1, si |-> 1, gen |-> <<>>]

\* What resuming recognize_all gives: kind is "value" (a result is
\* yielded), "none" (StopIteration) or "raise"
Iterated(kind, result, err, ra, heap) ==
    [kind |-> kind, result |-> result, err |-> err, ra |-> ra, heap |-> heap]

EndOf(ra) == [ra EXCEPT !.pc = "done", !.gen = <<>>]

\* lines 261-264: the fixed entities are appended to the context's list
AddFixedEntities(heap, context, intent_data) ==
    [heap EXCEPT ![context.entities] = @ \o FixedEntities(intent_data)]

\* lines 260-279: add the fixed entities, then yield a result that holds
\* the context's list
EmitResult(intent, intent_data, context, default_response, ra, heap) ==
    Only({ Iterated("value",
                    RecognizeResult(intent.name, EntitiesByName(heap1[context.entities]),
                                    context.entities,
                                    ResponseOf(intent_data, default_response)),
                    "", ra, heap1)
           : heap1 \in {AddFixedEntities(heap, context, intent_data)} })

\* lines 194-279: what recognize_all does with what match_expression gave
RECURSIVE ResumeRecognizeAll(_, _, _, _, _, _)
AfterMatch(intents, settings, text, intent_context, ra, r) ==
    IF r.kind = "raise" THEN Iterated("raise", NoResult, r.err, EndOf(ra), r.heap)
    ELSE IF r.kind = "stop"
    THEN ResumeRecognizeAll(intents, settings, text, intent_context,
                            [ra EXCEPT !.pc = "run", !.si = ra.si + 1, !.gen = <<>>],
                            r.heap)
    ELSE IF ~ContextIsMatch(r.ctx) \/ SkipMatch(intents[ra.ii].data[ra.di], r.ctx)
    THEN ResumeRecognizeAll(intents, settings, text, intent_context,
                            [ra EXCEPT !.pc = "run", !.gen = <<r.gen>>], r.heap)
    ELSE EmitResult(intents[ra.ii], intents[ra.ii].data[ra.di], r.ctx, PyStr("default"),
                    [ra EXCEPT !.pc = "run", !.gen = <<r.gen>>], r.heap)

\* lines 183-279: resume recognize_all up to its next yield, its end or an
\* exception
ResumeRecognizeAll(intents, settings, text, intent_context, ra0, heap0) ==
    Only({
        IF ra.pc = "done" \/ ra.ii > Len(intents)
        THEN Iterated("none", NoResult, "", EndOf(ra), heap)
        ELSE IF ra.di > Len(intents[ra.ii].data)
        THEN ResumeRecognizeAll(intents, settings, text, intent_context,
                                [ra EXCEPT !.pc = "run", !.ii = ra.ii + 1, !.di = 1,
                                           !.si = 1],
                                heap)
        ELSE IF ra.si > Len(intents[ra.ii].data[ra.di].sentences)
        THEN ResumeRecognizeAll(intents, settings, text, intent_context,
                                [ra EXCEPT !.pc = "run", !.di = ra.di + 1, !.si = 1], heap)
        ELSE IF ra.gen = <<>>
        THEN Only({ AfterMatch(intents, settings, text, intent_context, ra, r)
                    : r \in {Resume(settings,
                                    NewGenerator(MatchContext(text, Len(heap) + 1,
                                                              intent_context, TRUE),
                                                 intents[ra.ii].data[ra.di].sentences[ra.si]),
                                    Append(heap, <<>>))} })
        ELSE Only({ AfterMatch(intents, settings, text, intent_context, ra, r)
                    : r \in {Resume(settings, ra.gen[1], heap)} })
        : ra \in {ra0}, heap \in {heap0} })

\* ------------------------------------------------------------------------
\* The catalogues and inputs the calls are run on
\* ------------------------------------------------------------------------

\* Longest raw input text
MaxTextLen == 3

\* Largest step of a RangeSlotList
MaxStep == 3

\* All strings over alphabet of length at most n
RECURSIVE StringsUpTo(_, _)
StringsUpTo(alphabet, n) ==
    IF n = 0 THEN {<<>>}
    ELSE LET shorter == StringsUpTo(alphabet, n - 1)
         IN  shorter \cup {Append(t, c) : t \in shorter, c \in alphabet}

\* A sentence is given by its source: a whole template handed to
\* parse_sentence, or the chunks of the items of a Sentence of type GROUP,
\* each parsed by parse_expression.
Template(text) == [template |-> text, chunks |-> <<>>]
Chunks(chunks) == [template |-> <<>>, chunks |-> chunks]

BuildSentence(source) ==
    IF source.chunks = <<>> THEN parse_sentence(source.template)
    ELSE LET items == [i \in 1..Len(source.chunks) |->
                          parse_expression(next_chunk(source.chunks[i]))]
         IN  IF \E i \in 1..Len(items) : IsError(items[i]) THEN ParseExpressionError
             ELSE Sequence("GROUP", items)

NoSlots == <<>>

\* An intent with one IntentData holding the given sentence sources
SimpleIntent(name, sources, slots) ==
    Intent(name, <<IntentData(sources, slots, EmptyDict, EmptyDict, PyNone)>>)

Catalogue(name, alphabet, intents, slot_lists, expansion_rules, ignore_whitespace, intent_context) ==
    [name |-> name, alphabet |-> alphabet, intents |-> intents, slot_lists |-> slot_lists,
     expansion_rules |-> expansion_rules, ignore_whitespace |-> ignore_whitespace,
     intent_context |-> intent_context]

DomainLight == <<<<"d">>, PyStr("light")>>

\* "a b", and "a" as a second intent
PlainCatalogue ==
    Catalogue("plain", {"a", "b", " ", "."},
              <<SimpleIntent("I1", <<Template(<<"a", " ", "b">>)>>, NoSlots),
                SimpleIntent("I2", <<Template(<<"a">>), Template(<<"a", " ", "b">>)>>,
                             <<DomainLight>>)>>,
              <<>>, <<>>, FALSE, EmptyDict)

\* "a[b]" and "a(b|)"
OptionalCatalogue ==
    Catalogue("optional", {"a", "b", " "},
              <<SimpleIntent("I1", <<Template(<<"a", "[", "b", "]">>)>>, NoSlots),
                SimpleIntent("I2", <<Template(<<"a", "(", "b", "|", ")">>)>>, NoSlots)>>,
              <<>>, <<>>, FALSE, EmptyDict)

\* "(a|a)[b]" with a fixed slot: two branches that capture nothing; then
\* "a|a b", an Alternative at the top
BranchCatalogue ==
    Catalogue("branch", {"a", "b", " "},
              <<SimpleIntent("I1", <<Template(<<"(", "a", "|", "a", ")", "[", "b", "]">>)>>,
                             <<DomainLight>>),
                SimpleIntent("I2", <<Template(<<"a", "|", "a", " ", "b">>)>>, NoSlots)>>,
              <<>>, <<>>, FALSE, EmptyDict)

\* The list "n" of two text values; the second carries a context
TextListN ==
    TextSlotList(<<TextSlotValue(parse_sentence(<<"b">>), PyStr("b"), EmptyDict),
                   TextSlotValue(parse_sentence(<<"b", " ", "a">>), PyStr("b a"),
                                 [EmptyDict EXCEPT !["area"] = PyStr("k")])>>)

\* "{n:s}" then "[a]", with a fixed slot; the second intent, "{n}" then
\* "[.]", requires the context the second list value sets
ListCatalogue ==
    Catalogue("list", {"a", "b", " ", "."},
              <<SimpleIntent("I1", <<Chunks(<<<<"{", "n", ":", "s", "}">>,
                                             <<"[", "a", "]">>>>)>>,
                             <<DomainLight>>),
                Intent("I2", <<IntentData(<<Chunks(<<<<"{", "n", "}">>,
                                                    <<"[", ".", "]">>>>)>>,
                                          NoSlots,
                                          [EmptyDict EXCEPT !["area"] = PyNone],
                                          EmptyDict, PyStr("r"))>>)>>,
              (<<"n">> :> TextListN), <<>>, FALSE, EmptyDict)

\* Rule r is "{m}", and there is no list m; there is no rule q
RulesWithMissingList == (<<"r">> :> Chunks(<<<<"{", "m", "}">>>>))

\* "a|<q>", then "b <q>"
MissingRuleCatalogue ==
    Catalogue("missingrule", {"a", "b", " "},
              <<SimpleIntent("I1", <<Template(<<"a", "|", "<", "q", ">">>)>>, NoSlots),
                SimpleIntent("I2", <<Template(<<"b", " ", "<", "q", ">">>)>>, NoSlots)>>,
              (<<"n">> :> TextListN), RulesWithMissingList, FALSE, EmptyDict)

\* "a|<r>", then "b" followed by "{m}"
MissingListCatalogue ==
    Catalogue("missinglist", {"a", "b", " "},
              <<SimpleIntent("I1", <<Template(<<"a", "|", "<", "r", ">">>)>>, NoSlots),
                SimpleIntent("I2", <<Chunks(<<<<"b">>, <<"{", "m", "}">>>>)>>, NoSlots)>>,
              (<<"n">> :> TextListN), RulesWithMissingList, FALSE, EmptyDict)

\* "a <r>" where rule r is "[b] a"
RuleCatalogue ==
    Catalogue("rule", {"a", "b", " "},
              <<SimpleIntent("I1", <<Template(<<"a", " ", "<", "r", ">">>)>>, NoSlots)>>,
              <<>>, (<<"r">> :> Template(<<"[", "b", "]", " ", "a">>)), FALSE, EmptyDict)

\* "a\[" : an escaped metacharacter
EscapeCatalogue ==
    Catalogue("escape", {"a", "[", "\\"},
              <<SimpleIntent("I1", <<Template(<<"a", "\\", "[">>)>>, NoSlots)>>,
              <<>>, <<>>, FALSE, EmptyDict)

\* "(a|b)a b" with whitespace ignored, on input with capitals
NoSpaceCatalogue ==
    Catalogue("nospace", {"a", "B", " ", "."},
              <<SimpleIntent("I1", <<Template(<<"(", "a", "|", "b", ")", "a", " ", "b">>)>>,
                             NoSlots)>>,
              <<>>, <<>>, TRUE, EmptyDict)

\* "(a|b)a": a word that continues after an alternative (as "(start|stopp)ed")
SuffixCatalogue ==
    Catalogue("suffix", {"a", "b", " "},
              <<SimpleIntent("I1", <<Template(<<"(", "a", "|", "b", ")", "a">>)>>, NoSlots)>>,
              <<>>, <<>>, FALSE, EmptyDict)

\* "a[b" does not parse
BrokenCatalogue ==
    Catalogue("broken", {"a"},
              <<SimpleIntent("I1", <<Template(<<"a", "[", "b">>)>>, NoSlots)>>,
              <<>>, <<>>, FALSE, EmptyDict)

\* "{n}" over a number range
RangeCatalogue(start, stop, step) ==
    Catalogue("range", {"1", "2", "-", " "},
              <<SimpleIntent("I1", <<Chunks(<<<<"{", "n", "}">>>>)>>, NoSlots)>>,
              (<<"n">> :> RangeSlotList(start, stop, step)), <<>>, FALSE, EmptyDict)

RangeStarts == {0 - 2, 1}
RangeStops == {2, 21}
RangeSteps == (0 - 1)..MaxStep

\* The values a required context and an actual context take
RequiredValues == {PyAbsent, PyNone, PyStr("k"), PyColl({"k", "l"})}
ActualValues == {PyAbsent, PyNone, PyStr("k"), PyStr("m")}

\* "a" requiring area = required (and, in the second IntentData, domain = "k"
\* as well, and excluding area = "m"), then an intent "a" requiring nothing
RequiresCatalogue(required, actual, actual2) ==
    Catalogue("requires", {"a", "."},
              <<Intent("I1", <<IntentData(<<Template(<<"a">>)>>, NoSlots,
                                          [EmptyDict EXCEPT !["area"] = required],
                                          EmptyDict, PyNone),
                               IntentData(<<Template(<<"a">>)>>, NoSlots,
                                          [EmptyDict EXCEPT !["area"] = required,
                                                            !["domain"] = PyStr("k")],
                                          [EmptyDict EXCEPT !["area"] = PyStr("m")],
                                          PyStr("r"))>>),
                SimpleIntent("I2", <<Template(<<"a">>)>>, NoSlots)>>,
              <<>>, <<>>, FALSE,
              [EmptyDict EXCEPT !["area"] = actual, !["domain"] = actual2])

\* cfg is one of the catalogues
IsCatalogue(cfg) ==
    \/ cfg = PlainCatalogue
    \/ cfg = OptionalCatalogue
    \/ cfg = BranchCatalogue
    \/ cfg = ListCatalogue
    \/ cfg = MissingRuleCatalogue
    \/ cfg = MissingListCatalogue
    \/ cfg = RuleCatalogue
    \/ cfg = EscapeCatalogue
    \/ cfg = NoSpaceCatalogue
    \/ cfg = BrokenCatalogue
    \/ cfg = SuffixCatalogue
    \/ \E start \in RangeStarts, stop \in RangeStops, step \in RangeSteps :
           cfg = RangeCatalogue(start, stop, step)
    \/ \E required \in RequiredValues, actual \in ActualValues,
          actual2 \in {PyAbsent, PyStr("k")} :
           cfg = RequiresCatalogue(required, actual, actual2)

\* ------------------------------------------------------------------------
\* The calls as a state machine
\* ------------------------------------------------------------------------

VARIABLES
    catalogue,  \* the sources the intents are loaded from, and the call's arguments
    raw,        \* the text the calls are given
    pc,         \* "new", "loaded", "matched", "recognized", "failed"
    intents,    \* Intents.intents: the loaded intents, their sentences parsed
    sentence,   \* the sentence is_match was called with
    rules,      \* Intents.expansion_rules, parsed
    matched,    \* what is_match returned
    recognized, \* what recognize returned
    ra,         \* the generator object of recognize_all
    heap,       \* the entity lists of the recognize_all iteration
    results,    \* the results recognize_all has yielded, oldest first
    raised,     \* the exception that ended recognize_all, "" for none
    template,   \* the text parse_sentence is called with
    frames,     \* the activations of parse_group_or_alt, the innermost last
    parsed      \* what parse_sentence returned or raised

\* The state of a call of parse_sentence
parser == <<template, frames, parsed>>

vars ==
    <<catalogue, raw, pc, intents, sentence, rules, matched, recognized, ra, heap, results,
      raised, parser>>

NotCalled == CallResult("pending", NoContext, NoResult, "", <<>>, <<>>)

Init ==
    /\ IsCatalogue(catalogue)
    /\ raw \in StringsUpTo(catalogue.alphabet, MaxTextLen)
    /\ pc = "new"
    /\ intents = <<>>
    /\ sentence = TextChunk(<<>>)
    /\ rules = <<>>
    /\ matched = NotCalled
    /\ recognized = NotCalled
    /\ ra = NewRecognizeAll
    /\ heap = <<>>
    /\ results = <<>>
    /\ raised = ""
    /\ template = <<>>
    /\ frames = <<>>
    /\ parsed = TextChunk(<<>>)

\* The sentences of the catalogue's sources, parsed
LoadIntents(sources) ==
    [ii \in 1..Len(sources) |->
        Intent(sources[ii].name,
               [di \in 1..Len(sources[ii].data) |->
                   [sources[ii].data[di] EXCEPT !.sentences =
                       [si \in 1..Len(@) |-> BuildSentence(@[si])]]])]

LoadRules(sources) == [name \in DOMAIN sources |-> BuildSentence(sources[name])]

LoadFails(sources, rule_sources) ==
    \/ \E ii \in 1..Len(sources) : \E di \in 1..Len(sources[ii].data) :
          \E si \in 1..Len(sources[ii].data[di].sentences) :
              IsError(BuildSentence(sources[ii].data[di].sentences[si]))
    \/ \E name \in DOMAIN rule_sources : IsError(BuildSentence(rule_sources[name]))

\* Loading the catalogue: every template is parsed
Load ==
    /\ pc = "new"
    /\ IF LoadFails(catalogue.intents, catalogue.expansion_rules)
       THEN /\ pc' = "failed"
            /\ UNCHANGED <<intents, rules>>
       ELSE /\ pc' = "loaded"
            /\ intents' = LoadIntents(catalogue.intents)
            /\ rules' = LoadRules(catalogue.expansion_rules)
    /\ UNCHANGED <<catalogue, raw, sentence, matched, recognized, ra, heap, results, raised, parser>>

Settings ==
    MatchSettings(catalogue.slot_lists, rules, catalogue.ignore_whitespace)

\* is_match(raw, sentence, ...) on the first sentence of one of the intents
IsMatch ==
    /\ pc = "loaded"
    /\ pc' = "matched"
    /\ \E ii \in 1..Len(intents) :
           /\ sentence' = intents[ii].data[1].sentences[1]
           /\ matched' = is_match(raw, intents[ii].data[1].sentences[1], catalogue.slot_lists,
                                  rules, catalogue.intent_context,
                                  catalogue.ignore_whitespace)
    /\ UNCHANGED <<catalogue, raw, intents, rules, recognized, ra, heap, results, raised, parser>>

\* recognize(raw, intents, intent_context=...): the first result of a
\* recognize_all generator of its own (lines 106-127)
recognize(text, loaded, settings, intent_context) ==
    Only({ CallResult(r.kind, NoContext, r.result, r.err, r.heap, <<>>)
           : r \in {ResumeRecognizeAll(loaded, settings,
                                       PrepareText(text, settings.ignore_whitespace),
                                       intent_context, NewRecognizeAll, <<>>)} })

Recognize ==
    /\ pc = "matched"
    /\ pc' = "recognized"
    /\ recognized' = recognize(raw, intents, Settings, catalogue.intent_context)
    /\ UNCHANGED <<catalogue, raw, intents, sentence, rules, matched, ra, heap, results,
                   raised, parser>>

\* next() on the generator recognize_all(raw, intents, intent_context=...)
RecognizeAllNext ==
    /\ pc = "recognized"
    /\ ra.pc # "done"
    /\ \E r \in {ResumeRecognizeAll(intents, Settings,
                                    PrepareText(raw, catalogue.ignore_whitespace),
                                    catalogue.intent_context, ra, heap)} :
           /\ ra' = r.ra
           /\ heap' = r.heap
           /\ results' = IF r.kind = "value" THEN Append(results, r.result) ELSE results
           /\ raised' = r.err
    /\ UNCHANGED <<catalogue, raw, pc, intents, sentence, rules, matched, recognized, parser>>

Next == Load \/ IsMatch \/ Recognize \/ RecognizeAllNext

Spec == Init /\ [][Next]_vars

\* ------------------------------------------------------------------------
\* parse_sentence, one step of parse_group_or_alt at a time
\* ------------------------------------------------------------------------

MaxTemplateLen == 5

\* The characters of the templates: a word, whitespace, the delimiters of
\* groups and optionals, and the separator of alternatives
TemplateAlphabet == {"a", " ", GROUP_START, GROUP_END, OPT_START, OPT_END, ALT_SEP}

\* The local variables of an activation of parse_group_or_alt; item_chunk
\* is the chunk the loop condition (line 77) tests next
Frame(seq_chunk, seq, seq_text, last_seq_text, item_chunk) ==
    [seq_chunk |-> seq_chunk, seq |-> seq, seq_text |-> seq_text,
     last_seq_text |-> last_seq_text, item_chunk |-> item_chunk]

\* What a step of parse_group_or_alt leaves: the activation, or the
\* exception it raised
Continues(frame) == [raises |-> FALSE, error |-> ParseError, frame |-> frame]
Raises(error) ==
    [raises |-> TRUE, error |-> error,
     frame |-> Frame(NoChunk, Sequence("GROUP", <<>>), <<>>, <<>>, NoChunk)]

\* lines 66-75: parse_group_or_alt, up to the loop
EnterFrame(seq_chunk) ==
    IF seq_chunk.parse_type \notin {"GROUP", "OPT"} THEN Raises(ParseExpressionError)
    ELSE Only({ Only({ IF item_chunk.parse_type = "ERROR" THEN Raises(ParseError)
                       ELSE Continues(Frame(seq_chunk, Sequence("GROUP", <<>>), seq_text,
                                            seq_text, item_chunk))
                       : item_chunk \in {next_chunk(seq_text)} })
                : seq_text \in {IF seq_chunk.parse_type = "GROUP"
                              THEN remove_delimiters(seq_chunk.text, GROUP_START, GROUP_END)
                              ELSE remove_delimiters(seq_chunk.text, OPT_START, OPT_END)} })

\* lines 109-117: the end of an iteration that made seq1 of seq
EndIteration(frame, seq1) ==
    IF IsError(seq1) THEN Raises(seq1)
    ELSE Only({ IF seq_text1 = frame.last_seq_text THEN Raises(ParseExpressionError)
                ELSE Only({ IF item_chunk.parse_type = "ERROR" THEN Raises(ParseError)
                            ELSE Continues(Frame(frame.seq_chunk, seq1, seq_text1, seq_text1,
                                                 item_chunk))
                            : item_chunk \in {next_chunk(seq_text1)} })
                : seq_text1 \in {NextSeqText(frame.seq_text, frame.item_chunk)} })

\* The innermost activation
Top == frames[Len(frames)]

\* frames with the innermost activation replaced by what a step left, or
\* the exception leaving parse_sentence
Proceed(outer, outcome) ==
    IF outcome.raises
    THEN /\ pc' = "parsed"
         /\ frames' = <<>>
         /\ parsed' = outcome.error
    ELSE /\ pc' = "scan"
         /\ frames' = Append(outer, outcome.frame)
         /\ UNCHANGED parsed

matcher ==
    <<catalogue, raw, intents, sentence, rules, matched, recognized, ra, heap, results, raised>>

\* parse_sentence(template): the template is wrapped in a group
ParseSentence ==
    /\ pc = "template"
    /\ \E chunk \in {next_chunk(<<GROUP_START>> \o Strip(template) \o <<GROUP_END>>)} :
           IF chunk.parse_type = "ERROR"
           THEN Proceed(<<>>, Raises(ParseError))
           ELSE Proceed(<<>>, EnterFrame(chunk))
    /\ UNCHANGED <<template, matcher>>

\* lines 77-117: an iteration on a chunk that is no group and no optional
ScanItem ==
    /\ pc = "scan"
    /\ Top.item_chunk.parse_type \notin {"NONE", "GROUP", "OPT"}
    /\ Proceed(SubSeq(frames, 1, Len(frames) - 1),
               EndIteration(Top, ParseItem(Top.seq_chunk, Top.seq, Top.item_chunk)))
    /\ UNCHANGED <<template, matcher>>

\* line 85 on a GROUP or OPT chunk: parse_expression calls parse_group_or_alt
EnterGroup ==
    /\ pc = "scan"
    /\ Top.item_chunk.parse_type \in {"GROUP", "OPT"}
    /\ Proceed(frames, EnterFrame(Top.item_chunk))
    /\ UNCHANGED <<template, matcher>>

\* lines 125-135: what parse_expression makes of the Sequence
\* parse_group_or_alt returned for chunk
ParsedGroup(chunk, seq) == IF chunk.parse_type = "OPT" THEN ParseOptional(seq) ELSE seq

\* line 119: the loop is over and parse_group_or_alt returns seq, to
\* parse_sentence or to the iteration that called parse_expression (87-117)
Return ==
    /\ pc = "scan"
    /\ Top.item_chunk.parse_type = "NONE"
    /\ IF Len(frames) = 1
       THEN /\ pc' = "parsed"
            /\ frames' = <<>>
            /\ parsed' = Top.seq
       ELSE Proceed(SubSeq(frames, 1, Len(frames) - 2),
                    EndIteration(frames[Len(frames) - 1],
                                 AddItem(frames[Len(frames) - 1].seq,
                                         ParsedGroup(Top.seq_chunk, Top.seq))))
    /\ UNCHANGED <<template, matcher>>

ParserInit ==
    /\ template \in StringsUpTo(TemplateAlphabet, MaxTemplateLen)
    /\ pc = "template"
    /\ frames = <<>>
    /\ parsed = TextChunk(<<>>)
    /\ catalogue = PlainCatalogue
    /\ raw = <<>>
    /\ intents = <<>>
    /\ sentence = TextChunk(<<>>)
    /\ rules = <<>>
    /\ matched = NotCalled
    /\ recognized = NotCalled
    /\ ra = NewRecognizeAll
    /\ heap = <<>>
    /\ results = <<>>
    /\ raised = ""

ParserNext == ParseSentence \/ ScanItem \/ EnterGroup \/ Return

ParserSpec == ParserInit /\ [][ParserNext]_vars

\* ------------------------------------------------------------------------
\* Properties
\* ------------------------------------------------------------------------

\* The context a driver starts matching raw from (lines 304-309, 185-190)
StartContext ==
    MatchContext(PrepareText(raw, catalogue.ignore_whitespace), 1,
                 catalogue.intent_context, TRUE)

\* list(match_expression(settings, context, expression)) on a fresh entity list
Contexts(settings, context, expression) ==
    Drain(settings, NewGenerator(context, expression), << <<>> >>)

\* The sentence the catalogue's intent ii holds first
SentenceOf(ii) == intents[ii].data[1].sentences[1]

Loaded == pc \in {"loaded", "matched", "recognized"}

\* The set of the contexts a sequence holds
Range(seq) == {seq[i] : i \in 1..Len(seq)}

\* C1: the trees of "[x]" and "(x|)" are matched to the same set of contexts
\* from every start context, and both yield the start context itself (the
\* omitted choice). Here x is "b": the second items of "a[b]" and "a(b|)".
C1_OptionalIsAlternativeWithEmpty ==
    (Loaded /\ catalogue.name = "optional") =>
        \E opt \in {Contexts(Settings, StartContext, SentenceOf(1).items[2])},
           alt \in {Contexts(Settings, StartContext, SentenceOf(2).items[2])} :
            /\ Range(opt.ctxs) = Range(alt.ctxs)
            /\ StartContext \in Range(opt.ctxs)
            /\ StartContext \in Range(alt.ctxs)

\* The characters of text that are neither punctuation nor whitespace
Words(text) == SelectSeq(text, LAMBDA c : c \notin PunctuationChars \cup Whitespace)

\* Every remaining character is punctuation or whitespace
Exhausted(context) ==
    \A i \in 1..Len(context.text) : context.text[i] \in PunctuationChars \cup Whitespace

\* C2: is_match returns a context exactly when the enumeration of the
\* sentence on the prepared text holds a context whose remaining text is
\* only punctuation and whitespace, and it returns the first of them; it
\* returns None otherwise. For the sentence "a": text that is "a" with only
\* punctuation or whitespace around it is accepted, text with more words
\* before or after is not.
C2_IsMatchReturnsFirstExhausted ==
    pc \in {"matched", "recognized"} =>
        \E all \in {Contexts(Settings, StartContext, sentence)} :
            /\ all.kind = "ok" =>
                 \E accepted \in {{i \in 1..Len(all.ctxs) : Exhausted(all.ctxs[i])}} :
                    IF accepted = {} THEN matched.kind = "none"
                    ELSE /\ matched.kind = "value"
                         /\ matched.ctx = all.ctxs[MinOf(accepted)]
            /\ sentence = parse_sentence(<<"a">>) =>
                 (matched.kind = "value" <=> Words(raw) = <<"a">>)

\* is_match returned a context that was not the first one enumerated
C2_Witness ==
    /\ pc = "matched"
    /\ matched.kind = "value"
    /\ \E all \in {Contexts(Settings, StartContext, sentence)} :
          all.kind = "ok" /\ matched.ctx # all.ctxs[1]

\* The IntentData a result was emitted for: in every catalogue the
\* IntentData of one intent hold the same fixed slots
IntentDataOf(result) ==
    intents[CHOOSE ii \in 1..Len(intents) : intents[ii].name = result.intent].data[1]

\* C3: while recognize_all is iterated, the entities_list of every result
\* emitted so far is the entities its own branch captured (each with the
\* text it was captured from) followed by exactly one entity with text ""
\* per fixed slot of its IntentData.
C3_FixedSlotsAppendedOncePerResult ==
    \A i \in 1..Len(results) :
        \E list \in {heap[results[i].entities_list]},
           fixed \in {FixedEntities(IntentDataOf(results[i]))} :
            /\ Len(list) >= Len(fixed)
            /\ SubSeq(list, Len(list) - Len(fixed) + 1, Len(list)) = fixed
            /\ \A j \in 1..(Len(list) - Len(fixed)) : list[j].text # <<>>

\* The list and rule references of expression, those of the rules it
\* refers to included (the list values of the catalogues hold none)
RECURSIVE References(_)
References(expression) ==
    IF expression.kind = "Sequence"
    THEN UNION {References(expression.items[i]) : i \in 1..Len(expression.items)}
    ELSE IF expression.kind = "ListReference" THEN {expression}
    ELSE IF expression.kind = "RuleReference"
    THEN {expression} \cup (IF expression.rule_name \in DOMAIN rules
                            THEN References(rules[expression.rule_name]) ELSE {})
    ELSE {}

MissingLists(references) ==
    {e \in references : e.kind = "ListReference" /\ e.list_name \notin DOMAIN catalogue.slot_lists}

MissingRules(references) ==
    {e \in references : e.kind = "RuleReference" /\ e.rule_name \notin DOMAIN rules}

\* The expressions of a sequence of expressions
Evaluated(trace) == {trace[i] : i \in 1..Len(trace)}

\* C4 as stated: for every text, is_match over a sentence that contains a
\* reference to a missing list ends with MissingListError, and over one
\* that contains a reference to a missing rule with MissingRuleError.
C4_MissingReferenceAlwaysRaises ==
    pc \in {"matched", "recognized"} =>
        /\ MissingLists(References(sentence)) # {} =>
              matched.kind = "raise" /\ matched.err = "MissingListError"
        /\ MissingRules(References(sentence)) # {} =>
              matched.kind = "raise" /\ matched.err = "MissingRuleError"

\* C4 amended: a recognition call ends with MissingListError
\* (MissingRuleError) exactly when matching comes to evaluate a reference
\* to a missing list (rule): the error is then never swallowed, and the
\* reference that raised is the last expression evaluated. The error ends
\* recognize_all for good, and it comes from a sentence that holds such a
\* reference.
C4_EvaluatedMissingReferenceRaises ==
    /\ pc \in {"matched", "recognized"} =>
          /\ MissingLists(Evaluated(matched.trace)) # {} <=>
                matched.kind = "raise" /\ matched.err = "MissingListError"
          /\ MissingRules(Evaluated(matched.trace)) # {} <=>
                matched.kind = "raise" /\ matched.err = "MissingRuleError"
          /\ (matched.kind = "raise" /\ matched.err = "MissingListError") =>
                matched.trace[Len(matched.trace)] \in MissingLists(References(sentence))
          /\ (matched.kind = "raise" /\ matched.err = "MissingRuleError") =>
                matched.trace[Len(matched.trace)] \in MissingRules(References(sentence))
    /\ raised # "" => ra.pc = "done"
    /\ raised = "MissingListError" =>
          \E ii \in 1..Len(intents) : MissingLists(References(SentenceOf(ii))) # {}
    /\ raised = "MissingRuleError" =>
          \E ii \in 1..Len(intents) : MissingRules(References(SentenceOf(ii))) # {}

\* is_match raised MissingListError from a list reference inside a rule
C4_Witness ==
    /\ pc = "matched"
    /\ matched.kind = "raise"
    /\ matched.err = "MissingListError"
    /\ \E e \in Evaluated(matched.trace) : e.kind = "RuleReference"

\* The numerals the texts can hold, without sign
Numerals == StringsUpTo(Digits \cap {"1", "2"}, MaxTextLen) \ {<<>>}

\* text starts with the integer written sign, numeral
StartsWithInteger(text, sign, numeral) ==
    /\ StartsWith(text, sign \o numeral)
    /\ Len(text) > Len(sign \o numeral) => text[Len(sign \o numeral) + 1] \notin Digits

IntegerOf(sign, numeral) ==
    IF sign = <<>> THEN DecimalValue(numeral) ELSE 0 - DecimalValue(numeral)

\* start <= n <= stop and (step = 1 or step divides n - start), step # 0
Accepts(range_list, n) ==
    /\ range_list.start <= n
    /\ n <= range_list.stop
    /\ \/ range_list.step = 1
       \/ (n - range_list.start) % (IF range_list.step > 0 THEN range_list.step
                                    ELSE 0 - range_list.step) = 0

\* What the claim says of the list reference of the "range" catalogue, on a
\* text that starts with an integer
RangeYieldsAsAccepted ==
    \E list \in {catalogue.slot_lists[<<"n">>]},
       all \in {Contexts(Settings, StartContext, SentenceOf(1).items[1])} :
        \A sign \in {<<>>, <<"-">>}, numeral \in Numerals :
            StartsWithInteger(StartContext.text, sign, numeral) =>
                \E n \in {IntegerOf(sign, numeral)} :
                    /\ all.kind = "ok"
                    /\ all.ctxs # <<>> <=> Accepts(list, n)
                    /\ all.ctxs # <<>> =>
                          /\ Len(all.ctxs) = 1
                          /\ all.ctxs[1].text = Drop(StartContext.text, Len(sign \o numeral))
                          /\ Len(all.heap[all.ctxs[1].entities]) = 1
                          /\ all.heap[all.ctxs[1].entities][1].value = PyInt(n)

\* C5 as stated: for every RangeSlotList(start, stop, step), a reference
\* to it yields a context for a text that starts with the integer n if and
\* only if start <= n <= stop and (step = 1 or (n - start) mod step = 0),
\* and then exactly one context, whose new entity has value n.
C5_RangeAcceptsForEveryStep ==
    (Loaded /\ catalogue.name = "range" /\ catalogue.slot_lists[<<"n">>].step # 0) =>
        RangeYieldsAsAccepted

\* C5 amended: the same, for every RangeSlotList whose step is at least 1.
C5_RangeAcceptsForPositiveStep ==
    (Loaded /\ catalogue.name = "range" /\ catalogue.slot_lists[<<"n">>].step >= 1) =>
        RangeYieldsAsAccepted

\* is_match accepted the number stop of a range with a step above 1
C5_Witness ==
    /\ pc = "matched"
    /\ catalogue.name = "range"
    /\ catalogue.slot_lists[<<"n">>].step > 1
    /\ matched.kind = "value"
    /\ matched.heap[matched.ctx.entities][1].value = PyInt(catalogue.slot_lists[<<"n">>].stop)

\* The chunks the first sentence of intent ii was built from
ChunksOf(ii) == catalogue.intents[ii].data[1].sentences[1].chunks

\* The text between the delimiters of a chunk
Interior(chunk) == SubSeq(chunk, 2, Len(chunk) - 1)

Colons(text) == {i \in 1..Len(text) : text[i] = ":"}

\* The entities of the context is_match returned
MatchedEntities == matched.heap[matched.ctx.entities]

C7_WordChunkLosesEscapes ==
    (Loaded /\ catalogue.name = "escape") =>
        /\ SentenceOf(1).items[1] = TextChunk(<<"a", "[">>)
        /\ pc \in {"matched", "recognized"} =>
              (matched.kind = "value" <=> raw = <<"a", "[">>)

\* A required value v is met by the actual value a: v is null and a is set
\* to something non-null, or a = v and v is non-null, or v is a collection
\* that contains a
Met(v, a) ==
    \/ v.kind = "none" /\ a.kind \notin {"absent", "none"}
    \/ v.kind # "none" /\ a = v
    \/ v.kind = "coll" /\ a.kind = "str" /\ a.s \in v.c

\* The intent and the response of every result, oldest first
Emitted == [i \in 1..Len(results) |-> <<results[i].intent, results[i].response>>]

\* seq if condition, else nothing
If(condition, seq) == IF condition THEN seq ELSE <<>>

\* C8: an accepted context passes requires_context if and only if every
\* required key is met by the actual value of the context; a failing key
\* rejects the match without an error, and the sentences and intents that
\* follow are still tried. In the "requires" catalogue the first IntentData
\* requires area, the second requires area and domain = "k" (and excludes
\* area = "m"), and the second intent requires nothing.
C8_RequiresContextDecidesSilently ==
    (catalogue.name = "requires" /\ pc = "recognized" /\ ra.pc = "done") =>
        \E area \in {catalogue.intents[1].data[1].requires_context["area"]},
           actual \in {catalogue.intent_context} :
            /\ raised = ""
            /\ Emitted =
                 If(Words(raw) = <<"a">>,
                    If(area.kind = "absent" \/ Met(area, actual["area"]),
                       << <<"I1", PyStr("default")>> >>)
                    \o If(/\ area.kind = "absent" \/ Met(area, actual["area"])
                          /\ Met(PyStr("k"), actual["domain"])
                          /\ actual["area"] # PyStr("m"),
                          << <<"I1", PyStr("r")>> >>)
                    \o << <<"I2", PyStr("default")>> >>)

\* recognize_all skipped the first IntentData, which requires some area,
\* because the context holds none, and went on to the second intent
C8_Witness ==
    /\ catalogue.name = "requires"
    /\ catalogue.intents[1].data[1].requires_context["area"] = PyNone
    /\ catalogue.intent_context["area"] = PyAbsent
    /\ ra.pc = "done"
    /\ Emitted = << <<"I2", PyStr("default")>> >>

\* The expressions expression is made of, itself included
RECURSIVE Subexpressions(_)
Subexpressions(expression) ==
    {expression} \cup
        (IF expression.kind = "Sequence"
         THEN UNION {Subexpressions(expression.items[i]) : i \in 1..Len(expression.items)}
         ELSE {})

\* What the contexts of an enumeration hold, in order
Contents(all) ==
    [i \in 1..Len(all.ctxs) |->
        <<all.ctxs[i].text, all.ctxs[i].intent_context, all.ctxs[i].is_start_of_word,
          all.heap[all.ctxs[i].entities]>>]

\* The contexts of the first k branches of an Alternative, each branch
\* enumerated on its own, one branch after the other
RECURSIVE BranchContents(_, _)
BranchContents(alternative, k) ==
    IF k = 0 THEN <<>>
    ELSE BranchContents(alternative, k - 1)
             \o Contents(Contexts(Settings, StartContext, alternative.items[k]))

\* The place of the intent of results[i] in the catalogue
IntentIndex(i) == CHOOSE ii \in 1..Len(intents) : intents[ii].name = results[i].intent

\* C9: enumeration follows declaration order. The contexts of an
\* Alternative are the contexts of its first branch, then those of its
\* second branch, and so on; recognize_all emits its results in catalogue
\* order; and recognize returns exactly the first result recognize_all
\* emits (None when it emits none, its exception when it raises first).
C9_EnumerationFollowsDeclarationOrder ==
    /\ Loaded =>
          \A ii \in 1..Len(intents) :
              \A alternative \in Subexpressions(SentenceOf(ii)) :
                  alternative.type = "ALTERNATIVE" =>
                      \E all \in {Contexts(Settings, StartContext, alternative)} :
                          all.kind = "ok" =>
                              Contents(all) = BranchContents(alternative,
                                                             Len(alternative.items))
    /\ \A i \in 1..Len(results) : \A j \in i..Len(results) : IntentIndex(i) <= IntentIndex(j)
    /\ (pc = "recognized" /\ results # <<>>) =>
          /\ recognized.kind = "value"
          /\ recognized.result = results[1]
          /\ Len(results) = 1 =>
                recognized.heap[recognized.result.entities_list]
                    = heap[results[1].entities_list]
    /\ (pc = "recognized" /\ results = <<>> /\ ra.pc = "done") =>
          IF raised = "" THEN recognized.kind = "none"
          ELSE recognized.kind = "raise" /\ recognized.err = raised

\* recognize returned the result of the first intent, and recognize_all
\* went on to emit a result of the second intent
C9_Witness ==
    /\ pc = "recognized"
    /\ Len(results) >= 2
    /\ recognized.result = results[1]
    /\ IntentIndex(1) = 1
    /\ IntentIndex(Len(results)) = 2
    /\ \E alternative \in Subexpressions(SentenceOf(1)) :
          /\ alternative.type = "ALTERNATIVE"
          /\ Len(Contexts(Settings, StartContext, alternative).ctxs) >= 2

\* C10: the matcher is lazy. When is_match returns the first context of
\* the enumeration and the enumeration holds more contexts, the branches
\* that give the later contexts have not been evaluated yet: fewer
\* match_expression bodies have run than the whole enumeration runs.
C10_FirstContextLeavesLaterBranchesUnexplored ==
    (pc \in {"matched", "recognized"} /\ matched.kind = "value") =>
        \E all \in {Contexts(Settings, StartContext, sentence)} :
            (all.kind = "ok" /\ Len(all.ctxs) >= 2 /\ matched.ctx = all.ctxs[1]) =>
                Len(matched.trace) < Len(all.trace)

\* list(match_expression(settings, context, expression)) for a context
\* whose entities live in heap
ContextsFrom(settings, context, expression, heap0) ==
    Drain(settings, NewGenerator(context, expression), heap0)

\* The Groups of two items among the expressions of the loaded sentences
PairGroups ==
    UNION {{e \in Subexpressions(SentenceOf(ii)) : e.type = "GROUP" /\ Len(e.items) = 2}
           : ii \in 1..Len(intents)}

\* What item yields from the contexts first[k..], one context after the other
RECURSIVE Composed(_, _, _)
Composed(first, k, item) ==
    IF k > Len(first.ctxs) THEN <<>>
    ELSE Contents(ContextsFrom(Settings, first.ctxs[k], item, first.heap))
             \o Composed(first, k + 1, item)

\* Every enumeration the composition of group is made of ends without error
ComposesWithoutError(group, first) ==
    /\ first.kind = "ok"
    /\ \A k \in 1..Len(first.ctxs) :
          ContextsFrom(Settings, first.ctxs[k], group.items[2], first.heap).kind = "ok"

\* C11: from any start context, the contexts a Group with items [a, b]
\* yields are, for the contexts c1 that a yields taken in order, the
\* contexts b yields from c1, one c1 after the other: every composed match,
\* nothing else, and nothing when a (or b from every c1) yields nothing.
C11_GroupComposesItsItems ==
    Loaded =>
        \A group \in PairGroups :
            \E first \in {Contexts(Settings, StartContext, group.items[1])},
               all \in {Contexts(Settings, StartContext, group)} :
                ComposesWithoutError(group, first) =>
                    /\ all.kind = "ok"
                    /\ Contents(all) = Composed(first, 1, group.items[2])

\* A Group whose first item yields two contexts, composed with the contexts
\* of its second item into at least two contexts
C11_Witness ==
    /\ Loaded
    /\ \E group \in PairGroups :
          /\ Len(Contexts(Settings, StartContext, group.items[1]).ctxs) >= 2
          /\ Len(Contexts(Settings, StartContext, group).ctxs) >= 2

\* The references to a TextSlotList among the expressions of the loaded sentences
TextListReferences ==
    UNION {{e \in Subexpressions(SentenceOf(ii)) :
                /\ e.kind = "ListReference"
                /\ ~IsMissing(e.list_name, catalogue.slot_lists)
                /\ catalogue.slot_lists[e.list_name].kind = "TextSlotList"}
           : ii \in 1..Len(intents)}

\* For every context the values[j..] of a text list yield from context, in
\* order: the value_out of the candidate that matched and the remaining text
RECURSIVE Candidates(_, _, _)
Candidates(context, values, j) ==
    IF j > Len(values) THEN <<>>
    ELSE Only({ [k \in 1..Len(one.ctxs) |-> <<values[j].value_out, one.ctxs[k].text>>]
                : one \in {Contexts(Settings, context, values[j].text_in)} })
             \o Candidates(context, values, j + 1)

\* C12: every context a ListReference to a TextSlotList yields from a start
\* context c, with remaining text r, has the entities of c followed by one
\* new MatchEntity named slot_name whose value is the matched candidate's
\* value_out and whose text is the span of c.text the candidate consumed:
\* c.text is that text followed by r, also when the candidate matched
\* through whitespace trimming or the punctuation fallback.
C12_ListEntityTextIsConsumedSpan ==
    Loaded =>
        \A e \in TextListReferences :
            \E all \in {Contexts(Settings, StartContext, e)},
               candidates \in {Candidates(StartContext,
                                          catalogue.slot_lists[e.list_name].values, 1)} :
                all.kind = "ok" =>
                    /\ Len(all.ctxs) = Len(candidates)
                    /\ \A k \in 1..Len(all.ctxs) :
                          \E entities \in {all.heap[all.ctxs[k].entities]} :
                              /\ Len(entities) = 1
                              /\ entities[1].name = e.slot_name
                              /\ entities[1].value = candidates[k][1]
                              /\ all.ctxs[k].text = candidates[k][2]
                              /\ StartContext.text = entities[1].text \o all.ctxs[k].text

\* parse_sentence returned what the steps of parse_group_or_alt made
StepsAgreeWithParseSentence == pc = "parsed" => parsed = parse_sentence(template)

\* The Sequences of type ALTERNATIVE of the tree parse_sentence returned
ParsedAlternatives ==
    {e \in Subexpressions(parsed) : e.kind = "Sequence" /\ e.type = "ALTERNATIVE"}

IsGroup(expression) == expression.kind = "Sequence" /\ expression.type = "GROUP"

ParsedTree == pc = "parsed" /\ ~IsError(parsed)

\* C13 as stated: in every tree the parser produces, every item of every
\* Sequence of type ALTERNATIVE is a Sequence of type GROUP, for groups, for
\* optionals after the omit branch is appended, at every nesting depth.
C13_AlternativeItemsAreGroups ==
    ParsedTree =>
        \A alternative \in ParsedAlternatives : \A i \in 1..Len(alternative.items) :
            IsGroup(alternative.items[i])

\* C13 amended: every item of every Alternative is a Group, except that the
\* last item may be the empty TextChunk an optional appends as its omit
\* branch; a template without an optional has Groups only.
C13_AlternativeItemsAreGroupsButOmit ==
    ParsedTree =>
        \A alternative \in ParsedAlternatives :
            /\ \A i \in 1..Len(alternative.items) :
                  \/ IsGroup(alternative.items[i])
                  \/ /\ i = Len(alternative.items)
                     /\ alternative.items[i] = TextChunk(<<>>)
                     /\ \E k \in 1..Len(template) : template[k] = OPT_START

\* An optional of two branches was parsed: two Groups and the omit branch
C13_Witness ==
    /\ ParsedTree
    /\ \E alternative \in ParsedAlternatives :
          /\ Len(alternative.items) = 3
          /\ IsGroup(alternative.items[1])
          /\ IsGroup(alternative.items[2])
          /\ alternative.items[3] = TextChunk(<<>>)

\* The contexts the expressions of the loaded sentences yield from the start
\* context in the middle of a word, with whitespace to come
MidWordBeforeWhitespace ==
    UNION {UNION {{c \in Range(Contexts(Settings, StartContext, e).ctxs) :
                      /\ ~c.is_start_of_word
                      /\ c.text # <<>>
                      /\ c.text[1] \in Whitespace}
                  : e \in Subexpressions(SentenceOf(ii))}
           : ii \in 1..Len(intents)}

\* The TextChunks of the loaded sentences that begin with a character that
\* is no whitespace
WordChunks ==
    UNION {{e \in Subexpressions(SentenceOf(ii)) :
               /\ e.kind = "TextChunk"
               /\ e.text # <<>>
               /\ e.text[1] \notin Whitespace}
           : ii \in 1..Len(intents)}

\* C14: with ignore_whitespace false, leading whitespace of the remaining
\* text is skipped only at a word boundary: from a context with
\* is_start_of_word false whose text begins with whitespace, a TextChunk
\* that begins with a character that is no whitespace yields no context.
\* So "(a|b)a" (as "(start|stopp)ed") matches "aa" and "ba" and not "a a".
C14_WhitespaceSkippedOnlyAtWordBoundary ==
    /\ (Loaded /\ ~catalogue.ignore_whitespace) =>
          \A c \in MidWordBeforeWhitespace : \A chunk \in WordChunks :
              \E exact \in {[c EXCEPT !.entities = 1]} :
                  Contexts(Settings, exact, chunk).ctxs = <<>>
    /\ (pc = "matched" /\ catalogue.name = "suffix") =>
          /\ raw \in {<<"a", "a">>, <<"b", "a">>} => matched.kind = "value"
          /\ raw = <<"a", " ", "a">> => matched.kind = "none"

\* The activation whose loop iteration a step ends: the innermost one for a
\* chunk handled in place, its caller when parse_group_or_alt returns
Scanning == IF Top.item_chunk.parse_type = "NONE" THEN Len(frames) - 1 ELSE Len(frames)

\* A step that ends an iteration of a scan loop
EndsIteration == ScanItem \/ (Return /\ Len(frames) > 1)

\* parse_sentence raised
ParseRaised == pc = "parsed" /\ IsError(parsed)

\* What the activations have left to do: the text the innermost one has to
\* scan, the text each caller has left after the chunk it is busy with, and
\* one return each
RECURSIVE TextLeft(_, _)
TextLeft(stack, k) ==
    IF k = 0 THEN 0
    ELSE TextLeft(stack, k - 1) + 1 +
             (IF k = Len(stack) THEN Len(stack[k].seq_text)
              ELSE Len(stack[k].seq_text) - stack[k].item_chunk.end_index)

TextToScan == TextLeft(frames, Len(frames))

====
